---------------------------- MODULE Spec2Model ----------------------------
(***************************************************************************)
(* Model of the Mouqab Al Noor real-estate API (src/main.py, src/schemas.py)*)
(*                                                                         *)
(* State: the five collections of the document store that the routes       *)
(* touch, the store's identifier generator, and the last HTTP exchange.    *)
(* One action per route handler.  The store handle `db` is a connected     *)
(* database throughout.                                                    *)
(*                                                                         *)
(* Conventions                                                             *)
(*   - a str the code matches by pattern or converts is a sequence of      *)
(*     one-character strings; a str it only stores or compares whole is a  *)
(*     TLA+ string; a float is an integer;                                 *)
(*   - an Optional[T] value is <<>> (None) or <<x>> (the value x);         *)
(*   - a dict is a function whose DOMAIN is its set of keys;               *)
(*   - a bson ObjectId is a natural number, its str() form a sequence of   *)
(*     2 * OidBytes lower-case hex digits.                                 *)
(***************************************************************************)
EXTENDS Integers, Sequences, FiniteSets, TLC

VARIABLES store, nextOid, response, issued

vars == <<store, nextOid, response, issued>>

\* ------------------------------------------------------------------ bounds

\* inserts performed by one run of the model
MaxInserts == 2

\* first identifier the store generates (0xab: its hex form has letters)
OidSeed == 171

\* ------------------------------------------------------- program constants

\* limit passed by search_properties
SearchLimit == 100

\* limit passed by list_favorites and list_maintenance
ListLimit == 200

\* bytes of a bson ObjectId
OidBytes == 12

\* ----------------------------------------------------------- Python values

None == <<>>

Some(x) == <<x>>

\* Python truthiness of an Optional[str]: None and "" are falsy
TruthyStr(o) == o # None /\ o[1] # <<>>

Min(a, b) == IF a <= b THEN a ELSE b

\* s[:n]
Take(s, n) == SubSeq(s, 1, Min(Len(s), n))

\* ------------------------------------------------------ letters and case

UpperLetters == <<"A", "B", "C", "D", "E", "F", "I", "V">>

LowerLetters == <<"a", "b", "c", "d", "e", "f", "i", "v">>

\* case folding of one character, as the regex option i compares them
FoldTable ==
    [c \in {UpperLetters[k] : k \in 1..Len(UpperLetters)} |->
        LowerLetters[CHOOSE k \in 1..Len(UpperLetters) : UpperLetters[k] = c]]

Fold(c) == IF c \in DOMAIN FoldTable THEN FoldTable[c] ELSE c

\* str.upper(), used to build path identifiers in the other letter case
Upper(s) ==
    [i \in 1..Len(s) |->
        IF \E k \in 1..Len(LowerLetters) : LowerLetters[k] = s[i]
        THEN UpperLetters[CHOOSE k \in 1..Len(LowerLetters) : LowerLetters[k] = s[i]]
        ELSE s[i]]

\* ---------------------------------------------------------- bson.ObjectId

HexDigits == <<"0", "1", "2", "3", "4", "5", "6", "7", "8", "9",
               "a", "b", "c", "d", "e", "f">>

OidHexLen == 2 * OidBytes

\* the value of a hex digit of either case
HexTable ==
    [c \in {HexDigits[d] : d \in 1..16} \cup {"A", "B", "C", "D", "E", "F"} |->
        (CHOOSE d \in 1..16 : HexDigits[d] = Fold(c)) - 1]

IsHex(c) == c \in DOMAIN HexTable

HexVal(c) == HexTable[c]

RECURSIVE ToHex(_, _)
ToHex(n, len) ==
    IF len = 0 THEN <<>>
    ELSE Append(ToHex(n \div 16, len - 1), HexDigits[(n % 16) + 1])

RECURSIVE FromHexTo(_, _)
\* the number the first n digits of s denote
FromHexTo(s, n) ==
    IF n = 0 THEN 0 ELSE FromHexTo(s, n - 1) * 16 + HexVal(s[n])

FromHex(s) == FromHexTo(s, Len(s))

\* str(oid): the canonical lower-case hex form
ObjectIdStr(oid) == ToHex(oid, OidHexLen)

\* ObjectId(s) accepts exactly the strings of 24 hex digits, either case
ObjectIdValid(s) == Len(s) = OidHexLen /\ \A i \in 1..Len(s) : IsHex(s[i])

\* ObjectId(s) for a valid s
ObjectId(s) == FromHex(s)

\* ----------------------------------------------------------- the store

Collections == {"property", "lead", "viewing", "favorite", "maintenancerequest"}

EmptyStore == [c \in Collections |-> <<>>]

\* doc["_id"] = str(doc["_id"])
Stringify(doc) == [doc EXCEPT !["_id"] = ObjectIdStr(@)]

StringifyAll(docs) == [i \in 1..Len(docs) |-> Stringify(docs[i])]

\* insert_one: the store appends the document under a fresh identifier
InsertOne(st, coll, data, oid) ==
    [st EXCEPT ![coll] =
        Append(@, [k \in DOMAIN data \cup {"_id"} |->
                      IF k = "_id" THEN oid ELSE data[k]])]

\* create_document(collection, entity) -> the new store and str(inserted_id)
create_document(st, coll, payload, oid) ==
    [store |-> InsertOne(st, coll, payload, oid), id |-> ObjectIdStr(oid)]

\* mutant of FindOneById: the lookup is made on a key no document has
FindOneById_WrongKey(st, coll, oid) == None

\* db[coll].find_one({"_id": oid}): the first document with that _id, or None
FindOneById(st, coll, oid) ==
    IF \E i \in 1..Len(st[coll]) : st[coll][i]["_id"] = oid
    THEN Some(st[coll][CHOOSE i \in 1..Len(st[coll]) :
                  /\ st[coll][i]["_id"] = oid
                  /\ \A j \in 1..(i - 1) : st[coll][j]["_id"] # oid])
    ELSE None

\* mutant of UpdateOne: once a document matches, every document of the
\* collection gets the field set
UpdateOne_Everywhere(st, coll, oid, field, value) ==
    IF \E i \in 1..Len(st[coll]) : st[coll][i]["_id"] = oid
    THEN [store |-> [st EXCEPT ![coll] =
                        [i \in 1..Len(@) |-> [@[i] EXCEPT ![field] = value]]],
          matched_count |-> 1]
    ELSE [store |-> st, matched_count |-> 0]

\* mutant of UpdateOne: the matching document is replaced by the update instead
\* of having the field set
UpdateOne_Replace(st, coll, oid, field, value) ==
    IF \E i \in 1..Len(st[coll]) : st[coll][i]["_id"] = oid
    THEN [store |-> [st EXCEPT ![coll] =
                        [i \in 1..Len(@) |->
                            IF @[i]["_id"] = oid
                            THEN [k \in {"_id", field} |->
                                     IF k = "_id" THEN oid ELSE value]
                            ELSE @[i]]],
          matched_count |-> 1]
    ELSE [store |-> st, matched_count |-> 0]

\* db[coll].update_one({"_id": oid}, {"$set": {field: value}}): the first
\* matching document gets the field set; matched_count is 0 or 1
UpdateOne(st, coll, oid, field, value) ==
    LET hits == {i \in 1..Len(st[coll]) : st[coll][i]["_id"] = oid}
    IN  IF hits = {} THEN [store |-> st, matched_count |-> 0]
        ELSE LET i == CHOOSE h \in hits : \A g \in hits : h <= g
             IN  [store |-> [st EXCEPT ![coll][i][field] = value],
                  matched_count |-> 1]

\* ------------------------------------------------- store query evaluation

\* schemas.py: the Optional fields of a stored document (None is stored as null)
OptionalFields == {"description_en", "city", "bedrooms", "bathrooms", "unit"}

\* the value a query sees under key k: null for a missing or None field
FieldValue(doc, k) ==
    IF k \notin DOMAIN doc THEN None
    ELSE IF k \in OptionalFields THEN doc[k]
    ELSE Some(doc[k])

\* one pattern character against one text character.  The patterns of the
\* model use the regex syntax of literals and ".", which matches any character
CharMatches(pc, tc, icase) ==
    \/ pc = "."
    \/ IF icase THEN Fold(pc) = Fold(tc) ELSE pc = tc

\* {"$regex": pat, "$options": opts} on a string: an unanchored search
RegexSearch(pat, text, icase) ==
    \E i \in 0..(Len(text) - Len(pat)) :
        \A j \in 1..Len(pat) : CharMatches(pat[j], text[i + j], icase)

\* a field condition {op: operand, ...}; null matches no $gte, $lte or $regex
CondHolds(val, cond) ==
    \A op \in DOMAIN cond :
        CASE op = "$eq" -> val = Some(cond[op])
          [] op = "$gte" -> val # None /\ val[1] >= cond[op]
          [] op = "$lte" -> val # None /\ val[1] <= cond[op]
          [] op = "$regex" ->
                /\ val # None
                /\ RegexSearch(cond[op], val[1],
                               "$options" \in DOMAIN cond /\ cond["$options"] = "i")
          [] op = "$options" -> TRUE

RECURSIVE Matches(_, _)
\* a document against a query: every key must hold; "$or" holds a list of
\* queries of which one must hold
Matches(doc, query) ==
    \A k \in DOMAIN query :
        IF k = "$or"
        THEN \E i \in 1..Len(query[k]) : Matches(doc, query[k][i])
        ELSE CondHolds(FieldValue(doc, k), query[k])

\* get_documents(collection, filter, limit): at most limit matching documents,
\* in the store's (insertion) order
get_documents(st, coll, query, limit) ==
    Take(SelectSeq(st[coll], LAMBDA d : Matches(d, query)), limit)

\* ------------------------------------------------------- search_properties

EmptyQuery == <<>>

\* query[k] = v
SetKey(query, k, v) ==
    [x \in DOMAIN query \cup {k} |-> IF x = k THEN v ELSE query[x]]

\* {"$regex": pat, "$options": "i"}
RegexI(pat) == [x \in {"$regex", "$options"} |-> IF x = "$regex" THEN pat ELSE "i"]

\* a literal condition query[k] = v is the store's {k: {"$eq": v}}
Eq(v) == [x \in {"$eq"} |-> v]

Gte(v) == [x \in {"$gte"} |-> v]

AddText(query, filters) ==
    IF TruthyStr(filters.q)
    THEN SetKey(query, "$or",
                << SetKey(EmptyQuery, "title_en", RegexI(filters.q[1])),
                   SetKey(EmptyQuery, "description_en", RegexI(filters.q[1])) >>)
    ELSE query

AddLocation(query, filters) ==
    IF TruthyStr(filters.location)
    THEN SetKey(query, "location", RegexI(filters.location[1]))
    ELSE query

\* mutant of AddCity: the query is rebound instead of extended
AddCity_Rebind(query, filters) ==
    IF TruthyStr(filters.city)
    THEN SetKey(EmptyQuery, "city", RegexI(filters.city[1]))
    ELSE query

AddCity(query, filters) ==
    IF TruthyStr(filters.city)
    THEN SetKey(query, "city", RegexI(filters.city[1]))
    ELSE query

\* a property_type is truthy unless None or ""
AddPropertyType(query, filters) ==
    IF filters.property_type # None /\ filters.property_type[1] # ""
    THEN SetKey(query, "property_type", Eq(filters.property_type[1]))
    ELSE query

\* mutant of AddBedrooms: the guard tests truthiness, so 0 adds no condition
AddBedrooms_Truthy(query, filters) ==
    IF filters.bedrooms # None /\ filters.bedrooms[1] # 0
    THEN SetKey(query, "bedrooms", Gte(filters.bedrooms[1]))
    ELSE query

AddBedrooms(query, filters) ==
    IF filters.bedrooms # None
    THEN SetKey(query, "bedrooms", Gte(filters.bedrooms[1]))
    ELSE query

AddBathrooms(query, filters) ==
    IF filters.bathrooms # None
    THEN SetKey(query, "bathrooms", Gte(filters.bathrooms[1]))
    ELSE query

\* mutant of PriceCond: the guards test truthiness, so a bound of 0 is dropped
PriceCond_Truthy(filters) ==
    LET c0 == EmptyQuery
        c1 == IF filters.min_price # None /\ filters.min_price[1] # 0
              THEN SetKey(c0, "$gte", filters.min_price[1]) ELSE c0
        c2 == IF filters.max_price # None /\ filters.max_price[1] # 0
              THEN SetKey(c1, "$lte", filters.max_price[1]) ELSE c1
    IN  c2

\* price_cond
PriceCond(filters) ==
    LET c0 == EmptyQuery
        c1 == IF filters.min_price # None
              THEN SetKey(c0, "$gte", filters.min_price[1]) ELSE c0
        c2 == IF filters.max_price # None
              THEN SetKey(c1, "$lte", filters.max_price[1]) ELSE c1
    IN  c2

\* an empty dict is falsy
AddPrice(query, filters) ==
    IF DOMAIN PriceCond(filters) # {}
    THEN SetKey(query, "price", PriceCond(filters))
    ELSE query

AddFeatured(query, filters) ==
    IF filters.featured # None
    THEN SetKey(query, "featured", Eq(filters.featured[1]))
    ELSE query

\* the query dict search_properties builds
BuildQuery(filters) ==
    AddFeatured(
      AddPrice(
        AddBathrooms(
          AddBedrooms(
            AddPropertyType(
              AddCity(
                AddLocation(
                  AddText(EmptyQuery, filters), filters), filters), filters),
            filters), filters), filters), filters)

\* ------------------------------------------------- exceptions and responses

Return(v) == [raised |-> FALSE, value |-> v]

Raise(e) == [raised |-> TRUE, exc |-> e]

HTTPException(status_code, detail) ==
    [class |-> "HTTPException", status_code |-> status_code, detail |-> detail]

\* bson.errors.InvalidId, raised by ObjectId(s) for a malformed s
InvalidId == [class |-> "InvalidId"]

\* `except Exception as e: raise HTTPException(500, str(e))` around a handler
\* body: it catches every exception the body raises, an HTTPException included
ExceptException(outcome) ==
    IF outcome.raised THEN Raise(HTTPException(500, outcome.exc)) ELSE outcome

\* the HTTP exchange: the status and body FastAPI sends for an outcome
Respond(route, req, outcome) ==
    [route |-> route, req |-> req,
     status |-> IF outcome.raised THEN outcome.exc.status_code ELSE 200,
     body |-> IF outcome.raised THEN [detail |-> outcome.exc.detail]
              ELSE outcome.value]

\* ------------------------------------------------------------ the handlers
\* each yields the store it leaves and the outcome of its try/except

SearchWith(st, filters, limit) ==
    [store |-> st,
     out |-> ExceptException(
                Return([items |->
                    StringifyAll(get_documents(st, "property",
                                               BuildQuery(filters), limit))]))]

\* mutant of search_properties: the limit of the listing routes is passed
search_properties_ListLimit(st, filters) == SearchWith(st, filters, ListLimit)

search_properties(st, filters) == SearchWith(st, filters, SearchLimit)

CreateIn(st, coll, payload, oid) ==
    LET r == create_document(st, coll, payload, oid)
    IN  [store |-> r.store, out |-> ExceptException(Return([id |-> r.id]))]

create_property(st, payload, oid) == CreateIn(st, "property", payload, oid)

create_lead(st, payload, oid) == CreateIn(st, "lead", payload, oid)

create_viewing(st, payload, oid) == CreateIn(st, "viewing", payload, oid)

add_favorite(st, payload, oid) == CreateIn(st, "favorite", payload, oid)

create_maintenance(st, payload, oid) ==
    CreateIn(st, "maintenancerequest", payload, oid)

get_property(st, property_id) ==
    [store |-> st,
     out |-> ExceptException(
        IF ~ObjectIdValid(property_id) THEN Raise(InvalidId)
        ELSE LET doc == FindOneById(st, "property", ObjectId(property_id))
             IN  IF doc = None
                 THEN Raise(HTTPException(404, "Property not found"))
                 ELSE Return(Stringify(doc[1])))]

list_favorites(st, user_id) ==
    [store |-> st,
     out |-> ExceptException(
                Return([items |->
                    StringifyAll(get_documents(st, "favorite",
                        SetKey(EmptyQuery, "user_id", Eq(user_id)), ListLimit))]))]

\* status is Optional[str]; None and "" add no condition
list_maintenance(st, status) ==
    LET query == IF status # None /\ status[1] # ""
                 THEN SetKey(EmptyQuery, "status", Eq(status[1]))
                 ELSE EmptyQuery
    IN  [store |-> st,
         out |-> ExceptException(
                    Return([items |->
                        StringifyAll(get_documents(st, "maintenancerequest",
                                                   query, ListLimit))]))]

update_maintenance_status(st, request_id, status) ==
    IF ~ObjectIdValid(request_id)
    THEN [store |-> st, out |-> ExceptException(Raise(InvalidId))]
    ELSE LET res == UpdateOne(st, "maintenancerequest", ObjectId(request_id),
                              "status", status)
         IN  [store |-> res.store,
              out |-> ExceptException(
                 IF res.matched_count = 0
                 THEN Raise(HTTPException(404, "Maintenance request not found"))
                 ELSE Return([ok |-> TRUE]))]

login(st, payload) == [store |-> st, out |-> Return([token |-> "demo-token"])]

read_root(st) ==
    [store |-> st, out |-> Return([message |-> "Mouqab Al Noor API is running"])]

\* db.list_collection_names()[:10]: the collections that hold a document
test_database(st) ==
    [store |-> st,
     out |-> Return([backend |-> "Running",
                     connection_status |-> "Connected",
                     collections |-> {c \in Collections : Len(st[c]) > 0}])]

\* ------------------------------------------------------------------ inputs

Property(title_en, description_en, price, location, city, property_type, bedrooms, bathrooms, featured) ==
    [title_en |-> title_en, description_en |-> description_en, price |-> price,
     currency |-> "AED", location |-> location, city |-> city,
     property_type |-> property_type, bedrooms |-> bedrooms,
     bathrooms |-> bathrooms, featured |-> featured, status |-> "available"]

PropVilla ==
    Property(<<"V", "i">>, None, 3, <<"a", "b">>, None, "villa",
             None, None, FALSE)

PropFlat ==
    Property(<<"a", "b">>, Some(<<"v", "i">>), 0, <<"b">>, Some(<<"a", "b">>),
             "apartment", Some(2), Some(1), TRUE)

PropPlot ==
    Property(<<"b">>, Some(<<"b">>), 5, <<"V", "i">>, Some(<<"b">>), "villa",
             Some(0), Some(2), FALSE)

PropHouse ==
    Property(<<"a", "v", "i">>, None, 3, <<"a", "b">>, Some(<<"B">>), "villa",
             Some(3), Some(1), FALSE)

\* valid Property payloads
PropertyPayloads == {PropVilla, PropFlat, PropPlot, PropHouse}

\* the payloads the whole-API specification creates
CorePropertyPayloads == {PropVilla, PropFlat}

LeadPayloads ==
    {[property_id |-> None, name |-> "n1", email |-> None, phone |-> None,
      message |-> None, source |-> "website"]}

ViewingPayloads ==
    {[property_id |-> "p1", user_id |-> Some("u1"), name |-> None,
      email |-> None, phone |-> None, preferred_datetime |-> None,
      notes |-> None]}

FavoritePayloads == {[user_id |-> "u1", property_id |-> "p1"]}

UserIds == {"u1", "u2"}

MaintenancePayloads ==
    {[building |-> "b1", unit |-> None, category |-> "plumbing",
      priority |-> "medium", description |-> None, status |-> "open",
      requested_by |-> None, contact_phone |-> None],
     [building |-> "b2", unit |-> Some("7"), category |-> "hvac",
      priority |-> "urgent", description |-> None, status |-> "open",
      requested_by |-> Some("u1"), contact_phone |-> None]}

\* the status parameter of PATCH: any string is accepted
PatchStatuses == {"in_progress", "bogus"}

\* the status parameter of GET /maintenance-requests
ListStatuses == {None, Some(""), Some("open")}

\* path identifiers: every identifier the store can issue and the one after,
\* the first again in upper case, and a string that is no ObjectId
PathIds ==
    {ObjectIdStr(n) : n \in OidSeed..(OidSeed + MaxInserts)}
        \cup {Upper(ObjectIdStr(OidSeed)), <<"x", "y", "z">>}

SearchFilters(q, location, city, min_price, max_price, property_type, bedrooms, bathrooms, featured) ==
    [q |-> q, location |-> location, city |-> city, min_price |-> min_price,
     max_price |-> max_price, property_type |-> property_type,
     bedrooms |-> bedrooms, bathrooms |-> bathrooms, featured |-> featured]

FilterFields ==
    {"q", "location", "city", "min_price", "max_price", "property_type",
     "bedrooms", "bathrooms", "featured"}

\* every field absent
NoFilters == [k \in FilterFields |-> None]

\* the filter with only field k set
OnlyField(k, v) == [NoFilters EXCEPT ![k] = Some(v)]

\* filters with several fields set: any subset of five conditions, and the
\* remaining fields added to some of them
ComposedFilters ==
    {SearchFilters(q, None, c, lo, hi, None, bd, None, f) :
        q \in {None, Some(<<"v", "i">>)},
        c \in {None, Some(<<"b">>)},
        lo \in {None, Some(3)},
        hi \in {None, Some(3)},
        bd \in {None, Some(0)},
        f \in {None, Some(FALSE)}}
    \cup
    {SearchFilters(q, Some(<<"A">>), None, None, hi, t, None, bt, None) :
        q \in {None, Some(<<"v", "i">>)},
        hi \in {None, Some(4)},
        t \in {None, Some("villa")},
        bt \in {None, Some(1)}}
    \cup
    {SearchFilters(Some(<<".">>), Some(<<"A">>), Some(<<"b">>), Some(0), Some(5),
                   Some("villa"), Some(0), Some(1), Some(FALSE))}

\* filters with one field set, over more values of it
SingleFilters ==
    {OnlyField("q", v) : v \in {<<>>, <<".">>, <<"B">>, <<"i", ".">>, <<"i", "a">>}}
        \cup {OnlyField("location", v) : v \in {<<>>, <<"v">>}}
        \cup {OnlyField("min_price", v) : v \in {0, 4, 5, 6}}
        \cup {OnlyField("max_price", v) : v \in {0, 2, 5}}
        \cup {OnlyField("property_type", v) : v \in {"", "apartment", "vil"}}
        \cup {OnlyField("bedrooms", v) : v \in {1, 2, 3, 4}}
        \cup {OnlyField("bathrooms", v) : v \in {0, 2}}
        \cup {OnlyField("featured", v) : v \in {TRUE}}
        \cup {[NoFilters EXCEPT !["min_price"] = Some(1), !["max_price"] = Some(4)],
              [NoFilters EXCEPT !["min_price"] = Some(5), !["max_price"] = Some(0)]}

AllFilters == ComposedFilters \cup SingleFilters

\* the filters the whole-API specification and the large-store one search with
CoreFilters ==
    {NoFilters, OnlyField("q", <<"v", "i">>), OnlyField("featured", TRUE),
     OnlyField("max_price", 0)}

LoginPayloads == {[email |-> "e", password |-> "p"]}

\* ----------------------------------------------------------------- actions

CanInsert == nextOid < OidSeed + MaxInserts

\* a step of handler result r for the exchange (route, req)
Step(route, req, r) ==
    /\ store' = r.store
    /\ response' = Respond(route, req, r.out)

CreatePropertyOf(payloads) ==
    /\ CanInsert
    /\ \E p \in payloads :
        LET r == create_property(store, p, nextOid)
        IN  /\ Step("create_property", p, r)
            /\ nextOid' = nextOid + 1
            /\ issued' = IF r.out.raised THEN issued
                         ELSE issued \cup {<<r.out.value.id, p>>}

CreateProperty == CreatePropertyOf(CorePropertyPayloads)

CreateLead ==
    /\ CanInsert
    /\ \E p \in LeadPayloads : Step("create_lead", p, create_lead(store, p, nextOid))
    /\ nextOid' = nextOid + 1
    /\ UNCHANGED issued

CreateViewing ==
    /\ CanInsert
    /\ \E p \in ViewingPayloads :
        Step("create_viewing", p, create_viewing(store, p, nextOid))
    /\ nextOid' = nextOid + 1
    /\ UNCHANGED issued

AddFavorite ==
    /\ CanInsert
    /\ \E p \in FavoritePayloads :
        Step("add_favorite", p, add_favorite(store, p, nextOid))
    /\ nextOid' = nextOid + 1
    /\ UNCHANGED issued

CreateMaintenance ==
    /\ CanInsert
    /\ \E p \in MaintenancePayloads :
        Step("create_maintenance", p, create_maintenance(store, p, nextOid))
    /\ nextOid' = nextOid + 1
    /\ UNCHANGED issued

SearchPropertiesOf(filterSet) ==
    /\ \E f \in filterSet : Step("search_properties", f, search_properties(store, f))
    /\ UNCHANGED <<nextOid, issued>>

SearchProperties == SearchPropertiesOf(CoreFilters)

GetProperty ==
    /\ \E id \in PathIds : Step("get_property", id, get_property(store, id))
    /\ UNCHANGED <<nextOid, issued>>

ListFavorites ==
    /\ \E u \in UserIds : Step("list_favorites", u, list_favorites(store, u))
    /\ UNCHANGED <<nextOid, issued>>

ListMaintenance ==
    /\ \E s \in ListStatuses :
        Step("list_maintenance", s, list_maintenance(store, s))
    /\ UNCHANGED <<nextOid, issued>>

UpdateMaintenanceStatus ==
    /\ \E id \in PathIds, s \in PatchStatuses :
        Step("update_maintenance_status", [request_id |-> id, status |-> s],
             update_maintenance_status(store, id, s))
    /\ UNCHANGED <<nextOid, issued>>

Login ==
    /\ \E p \in LoginPayloads : Step("login", p, login(store, p))
    /\ UNCHANGED <<nextOid, issued>>

ReadRoot ==
    /\ Step("read_root", None, read_root(store))
    /\ UNCHANGED <<nextOid, issued>>

TestDatabase ==
    /\ Step("test_database", None, test_database(store))
    /\ UNCHANGED <<nextOid, issued>>

\* ---------------------------------------------------------- specifications

NoResponse == [route |-> "none", req |-> None, status |-> 0, body |-> None]

\* the whole API over an empty store
Init ==
    /\ store = EmptyStore
    /\ nextOid = OidSeed
    /\ response = NoResponse
    /\ issued = {}

Next ==
    \/ CreateProperty
    \/ GetProperty
    \/ SearchProperties
    \/ CreateLead
    \/ CreateViewing
    \/ AddFavorite
    \/ ListFavorites
    \/ CreateMaintenance
    \/ ListMaintenance
    \/ UpdateMaintenanceStatus
    \/ Login
    \/ ReadRoot
    \/ TestDatabase

Spec == Init /\ [][Next]_vars

\* the search route over every filter and every property payload
CreateAnyProperty == CreatePropertyOf(PropertyPayloads)

SearchAnyFilter == SearchPropertiesOf(AllFilters)

NextSearch == CreateAnyProperty \/ SearchAnyFilter

SpecSearch == Init /\ [][NextSearch]_vars

\* the search route over a store that already holds about SearchLimit
\* properties, inserted by earlier create_property requests
PayloadSeq == <<PropVilla, PropFlat, PropPlot, PropHouse>>

Preloaded(n) ==
    [EmptyStore EXCEPT !["property"] =
        [i \in 1..n |->
            [k \in DOMAIN PropVilla \cup {"_id"} |->
                IF k = "_id" THEN OidSeed - n + i - 1
                ELSE PayloadSeq[(i % 4) + 1][k]]]]

InitLarge ==
    /\ \E n \in {SearchLimit - 2, SearchLimit - 1} : store = Preloaded(n)
    /\ nextOid = OidSeed
    /\ response = NoResponse
    /\ issued = {}

NextLarge == CreateAnyProperty \/ SearchProperties

SpecLarge == InitLarge /\ [][NextLarge]_vars

\* ------------------------------------------------------------------ claims

MaintColl == "maintenancerequest"

IsRoute(r) == response.route = r

\* the stored properties as the API returns them
Props == StringifyAll(store["property"])

IdsOf(docs) == {docs[i]["_id"] : i \in 1..Len(docs)}

\* the fields of filter f outside K are absent
OnlyFields(f, K) == \A k \in FilterFields \ K : f[k] = None

\* needle occurs in hay, letter case ignored
ContainsFold(hay, needle) ==
    \E i \in 0..(Len(hay) - Len(needle)) :
        \A j \in 1..Len(needle) : Fold(needle[j]) = Fold(hay[i + j])

\* C1 (as claimed): GET /properties/{id} with a well-formed id that matches no
\* stored property answers 404.
C1_AbsentPropertyIs404 ==
    (/\ IsRoute("get_property")
     /\ ObjectIdValid(response.req)
     /\ \A i \in 1..Len(store["property"]) :
            store["property"][i]["_id"] # ObjectId(response.req))
        => response.status = 404

\* C2 (as claimed): PATCH /maintenance-requests/{id} with a well-formed id that
\* matches no stored maintenance request answers 404.
C2_AbsentRequestIs404 ==
    (/\ IsRoute("update_maintenance_status")
     /\ ObjectIdValid(response.req.request_id)
     /\ \A i \in 1..Len(store[MaintColl]) :
            store[MaintColl][i]["_id"] # ObjectId(response.req.request_id))
        => response.status = 404

C3Step ==
    LET req == response'.req
        old == store[MaintColl]
        new == store'[MaintColl]
    IN  (/\ response'.route = "update_maintenance_status"
         /\ ObjectIdValid(req.request_id)
         /\ \E i \in 1..Len(old) : old[i]["_id"] = ObjectId(req.request_id))
            => /\ response'.status = 200
               /\ response'.body = [ok |-> TRUE]
               /\ Len(new) = Len(old)
               /\ \A i \in 1..Len(old) :
                    IF old[i]["_id"] = ObjectId(req.request_id)
                    THEN new[i] = [old[i] EXCEPT !["status"] = req.status]
                    ELSE new[i] = old[i]
               /\ \A c \in Collections \ {MaintColl} : store'[c] = store[c]

\* C3: a PATCH with the id of a stored maintenance request and status s answers
\* {ok: true}; afterwards that record differs from before in its status alone,
\* which is s, and every other record of every collection is as before.
C3_UpdateSetsOnlyStatus == [][C3Step]_vars

\* C3 witness: an answered PATCH has set one of two stored requests to the new
\* status while the other is still open.
C3_Witness ==
    /\ IsRoute("update_maintenance_status")
    /\ response.status = 200
    /\ Len(store[MaintColl]) = 2
    /\ \E i, j \in 1..2 :
        /\ store[MaintColl][i]["_id"] = ObjectId(response.req.request_id)
        /\ store[MaintColl][i]["status"] = response.req.status
        /\ store[MaintColl][j]["status"] = "open"

\* the answer to GET /properties/{id} is the record of payload p under id
RoundTrip(out, id, p) ==
    /\ ~out.raised
    /\ DOMAIN out.value = DOMAIN p \cup {"_id"}
    /\ out.value["_id"] = id
    /\ \A k \in DOMAIN p : out.value[k] = p[k]

\* C4: in every state reached after POST /properties answered an identifier
\* for payload p, GET /properties/{that identifier} answers 200 with a record
\* holding every field of p and that identifier.
C4_RoundTrip ==
    /\ \A e \in issued : RoundTrip(get_property(store, e[1]).out, e[1], e[2])
    /\ IsRoute("get_property") =>
        \A e \in issued :
            e[1] = response.req =>
                /\ response.status = 200
                /\ response.body["_id"] = e[1]
                /\ \A k \in DOMAIN e[2] : response.body[k] = e[2][k]

\* C4 witness: a property is read back by its issued identifier after a later
\* insert and a status update have happened.
C4_Witness ==
    /\ IsRoute("get_property")
    /\ response.status = 200
    /\ \E e \in issued : e[1] = response.req /\ e[1] = ObjectIdStr(OidSeed)
    /\ Len(store[MaintColl]) = 1
    /\ store[MaintColl][1]["status"] # "open"

PriceInRange(price, f) ==
    /\ f.min_price # None => f.min_price[1] <= price
    /\ f.max_price # None => price <= f.max_price[1]

\* C5: when min_price or max_price is set, every returned record has its price
\* within the set bounds, both inclusive and a bound of 0 included; with no
\* other field set, the returned records are exactly those within the bounds.
C5_PriceRange ==
    LET f == response.req
        items == response.body.items
    IN  (IsRoute("search_properties") /\ (f.min_price # None \/ f.max_price # None))
            => /\ response.status = 200
               /\ \A i \in 1..Len(items) : PriceInRange(items[i].price, f)
               /\ OnlyFields(f, {"min_price", "max_price"}) =>
                    IdsOf(items) =
                        {Props[i]["_id"] : i \in
                            {j \in 1..Len(Props) : PriceInRange(Props[j].price, f)}}

\* C5 witness: max_price = 0 alone returns the one stored property of price 0
\* and leaves out the other stored property.
C5_Witness ==
    /\ IsRoute("search_properties")
    /\ response.req = OnlyField("max_price", 0)
    /\ Len(store["property"]) = 2
    /\ Len(response.body.items) = 1
    /\ response.body.items[1].price = 0

TextContains(doc, q) ==
    \/ ContainsFold(doc.title_en, q)
    \/ doc.description_en # None /\ ContainsFold(doc.description_en[1], q)

\* C6 (as claimed): with q alone set, the returned records are exactly those
\* whose title_en or description_en contains q, letter case ignored.
C6_TextIsSubstring ==
    LET f == response.req
    IN  (IsRoute("search_properties") /\ f.q # None /\ OnlyFields(f, {"q"}))
            => IdsOf(response.body.items) =
                   {Props[i]["_id"] : i \in
                       {j \in 1..Len(Props) : TextContains(Props[j], f.q[1])}}

BedroomsAtLeast(doc, n) == doc.bedrooms # None /\ doc.bedrooms[1] >= n

\* C7: when bedrooms = n is set, n = 0 included, every returned record has a
\* bedrooms number >= n; with no other field set, the returned records are
\* exactly those, so records with fewer or with null bedrooms are left out.
C7_Bedrooms ==
    LET f == response.req
        items == response.body.items
    IN  (IsRoute("search_properties") /\ f.bedrooms # None)
            => /\ response.status = 200
               /\ \A i \in 1..Len(items) : BedroomsAtLeast(items[i], f.bedrooms[1])
               /\ OnlyFields(f, {"bedrooms"}) =>
                    IdsOf(items) =
                        {Props[i]["_id"] : i \in
                            {j \in 1..Len(Props) :
                                BedroomsAtLeast(Props[j], f.bedrooms[1])}}

\* C7 witness: bedrooms = 0 alone returns a record and leaves out a stored
\* record whose bedrooms is null.
C7_Witness ==
    /\ IsRoute("search_properties")
    /\ response.req = OnlyField("bedrooms", 0)
    /\ Len(response.body.items) = 1
    /\ \E i \in 1..Len(store["property"]) : store["property"][i].bedrooms = None

\* the identifiers the search returns for field k of f taken alone
AloneIds(f, k) ==
    IdsOf(search_properties(store, OnlyField(k, f[k][1])).out.value.items)

\* C8: the returned records are exactly the stored properties that the search
\* returns for each present field of the filter taken alone.
C8_Conjunction ==
    LET f == response.req
    IN  IsRoute("search_properties")
            => IdsOf(response.body.items) =
                   {id \in IdsOf(Props) :
                       \A k \in FilterFields : f[k] # None => id \in AloneIds(f, k)}

\* C8 witness: q and city are both set; a stored record that q alone returns
\* is left out because city fails, and another record is returned.
C8_Witness ==
    /\ IsRoute("search_properties")
    /\ response.req.q # None
    /\ response.req.city # None
    /\ Len(response.body.items) >= 1
    /\ \E id \in AloneIds(response.req, "q") : id \notin IdsOf(response.body.items)

\* C9: no search returns more than SearchLimit records, and the search with
\* every field absent builds the empty query and returns the first
\* min(N, SearchLimit) of the N stored properties.
C9_EmptyFilter ==
    LET f == response.req
        items == response.body.items
    IN  IsRoute("search_properties")
            => /\ response.status = 200
               /\ Len(items) <= SearchLimit
               /\ f = NoFilters =>
                    /\ DOMAIN BuildQuery(f) = {}
                    /\ Len(items) = Min(Len(store["property"]), SearchLimit)
                    /\ items = Take(Props, SearchLimit)

\* C9 witness: the store holds more than SearchLimit properties and the search
\* with every field absent returns SearchLimit of them.
C9_Witness ==
    /\ IsRoute("search_properties")
    /\ response.req = NoFilters
    /\ Len(store["property"]) > SearchLimit
    /\ Len(response.body.items) = SearchLimit

ReadRoutes ==
    {"search_properties", "get_property", "list_favorites", "list_maintenance",
     "login", "test_database", "read_root"}

C10Step ==
    /\ \A c \in Collections :
        /\ Len(store'[c]) >= Len(store[c])
        /\ \A i \in 1..Len(store[c]) :
            /\ DOMAIN store'[c][i] = DOMAIN store[c][i]
            /\ store'[c][i]["_id"] = store[c][i]["_id"]
            /\ \A k \in DOMAIN store[c][i] :
                store'[c][i][k] # store[c][i][k] => c = MaintColl /\ k = "status"
        /\ \A i, j \in 1..Len(store'[c]) :
            store'[c][i]["_id"] = store'[c][j]["_id"] => i = j
    /\ response'.route \in ReadRoutes => store' = store

\* C10: in every step, every stored record stays in place with its identifier
\* and its fields, the status of a maintenance request excepted; identifiers
\* are unique within a collection; the read routes leave the store as it was.
C10_Lifecycle == [][C10Step]_vars

\* C10 witness: two records are stored, and the status of a maintenance
\* request differs from the one it was inserted with.
C10_Witness ==
    /\ Len(store[MaintColl]) >= 1
    /\ \E p \in MaintenancePayloads :
        /\ store[MaintColl][1]["building"] = p.building
        /\ store[MaintColl][1]["status"] # p.status
    /\ nextOid = OidSeed + 2
    /\ response.route \in ReadRoutes
=============================================================================
